---- MODULE Spec2Model ----
(***************************************************************************)
(* The delayed-action scheduler of AutomationMaster: SchedulerService      *)
(* (server/scheduler.ts) over DatabaseStorage (server/storage.ts) and the  *)
(* activity_logs / rules tables (shared/schema.ts).                        *)
(*                                                                         *)
(* Every `await` of the source is one step: between two steps of a pass    *)
(* any other handler (another pass, an API call, the clock) may run.       *)
(***************************************************************************)
EXTENDS Integers, Sequences, FiniteSets, TLC

(* ------------------------------ bounds -------------------------------- *)
MaxRules == 1
MaxLogs == 2
MaxMinutes == 1
MaxPasses == 2
MaxRestarts == 1
MaxNoopCalls == 2

(* ------------------------- program constants -------------------------- *)
MsPerSecond == 1000
SecondsPerMinute == 60
DefaultIntervalMs == 10000

NULL == -1
RuleIds == 1..MaxRules
RuleIdArgs == 1..(MaxRules + 1)   \* ids a caller may pass: one names no rule
PassIds == 1..MaxPasses
DelayArgs == {0, 1}
MinuteMs == SecondsPerMinute * MsPerSecond

EmptyDetails == [k \in {} |-> ""]
StoreError == "connection refused"

(* Default rows of the actions table, ids given by the serial column. *)
defaultActions ==
  << "Send email", "Send Slack notification", "Send native notification",
     "Create task", "Turn on device", "Turn off device" >>

(* Details payloads a caller passes to scheduleAction. *)
DetailsArgs == { [triggerTime |-> "t0"] }

(* ------------------------------- state -------------------------------- *)
VARIABLES
  now,                \* the wall clock, in ms
  storeUp,            \* whether the database answers (FALSE: every call throws)
  rules,              \* rules table: id -> row
  activityLogs,       \* activity_logs table: sequence of rows, id = index
  isRunning,          \* SchedulerService.isRunning
  schedulerInterval,  \* SchedulerService.schedulerInterval (NULL or a handle)
  intervalMs,         \* SchedulerService.intervalMs
  liveTimers,         \* number of setInterval timers not yet cleared
  passes,             \* in-flight calls of processScheduledActions
  execCount,          \* per activity log id: invocations of mockExecuteAction
  markCount,          \* per activity log id: applied markActivityLogAsExecuted
  caught,             \* the outer catch of processScheduledActions has logged
  crashed,            \* a rejection escaped a pass (unhandled rejection)
  imm,                \* the in-flight call of triggerImmediateAction
  restarts,           \* number of process restarts so far
  deleteCalledFor,    \* ids of scheduled entries whose rule got a DELETE call
  trig,               \* the in-flight request POST /api/rules/:id/trigger
  logged              \* lines logged by start and stop calls that did nothing

vars == << now, storeUp, rules, activityLogs, isRunning, schedulerInterval,
           intervalMs, liveTimers, passes, execCount, markCount, caught,
           crashed, imm, restarts, deleteCalledFor, trig, logged >>

schedVars == << isRunning, schedulerInterval, intervalMs, liveTimers >>

Terminal == {"success", "failed", "canceled"}

LogIds == 1..Len(activityLogs)

IdlePass ==
  [ pc |-> "idle", pending |-> << >>, idx |-> 0, queryNow |-> 0,
    details |-> EmptyDetails, result |-> EmptyDetails, error |-> "" ]

IdleImm ==
  [ pc |-> "idle", ruleId |-> 0, result |-> EmptyDetails, at |-> 0,
    invoked |-> FALSE, outcome |-> << "none" >>, returned |-> 0,
    calledAt |-> 0 ]   \* calledAt: the clock when mockExecuteAction was called

IdleTrig ==
  [ pc |-> "idle", ruleId |-> 0, actionType |-> "", scheduleDelay |-> 0,
    executionTime |-> 0, response |-> 0 ]

Init ==
  /\ now = 0
  /\ storeUp = TRUE
  /\ rules = [ r \in RuleIds |->
                 [ exists |-> TRUE, isActive |-> TRUE, lastTriggered |-> NULL,
                   actionId |-> r,
                   actionDetails |-> [ recipient |-> "guest@example.com" ],
                   actionType |-> "scheduled", scheduleDelay |-> 1 ] ]
  /\ activityLogs = << >>
  /\ isRunning = FALSE
  /\ schedulerInterval = NULL
  /\ intervalMs = DefaultIntervalMs
  /\ liveTimers = 0
  /\ passes = [ p \in PassIds |-> IdlePass ]
  /\ execCount = [ i \in 1..MaxLogs |-> 0 ]
  /\ markCount = [ i \in 1..MaxLogs |-> 0 ]
  /\ caught = FALSE
  /\ crashed = FALSE
  /\ imm = IdleImm
  /\ restarts = 0
  /\ deleteCalledFor = {}
  /\ trig = IdleTrig
  /\ logged = [ alreadyRunning |-> 0, notRunning |-> 0 ]

(* ------------------------- DatabaseStorage ---------------------------- *)

(* getRuleById: the row, or undefined (here: exists = FALSE). *)
getRuleById(id) ==
  IF id \in RuleIds /\ rules[id].exists
    THEN rules[id]
    ELSE [ exists |-> FALSE, isActive |-> FALSE, lastTriggered |-> NULL,
           actionId |-> 0, actionDetails |-> EmptyDetails,
           actionType |-> "immediate", scheduleDelay |-> 0 ]

(* getActionById: the action's name, or "" for undefined. *)
getActionById(id) ==
  IF id \in DOMAIN defaultActions THEN defaultActions[id] ELSE ""

(* updateRuleLastTriggered: UPDATE rules SET last_triggered = now WHERE id. *)
updateRuleLastTriggered(id) ==
  IF id \in RuleIds /\ rules[id].exists
    THEN [ rules EXCEPT ![id].lastTriggered = now ]
    ELSE rules

(* The foreign key activity_logs.rule_id -> rules.id (ON DELETE NO ACTION). *)
ruleIdReferenced(id) ==
  \E i \in LogIds : activityLogs[i].ruleId = id

(* createActivityLog: INSERT ... RETURNING; columns left out are null. *)
createActivityLog(logData) ==
  Append(activityLogs, logData)

(* Mutant: the status filter is lost. *)
getActivityLogsByStatusAnyStatus(status) ==
  { i \in LogIds : TRUE }

(* getActivityLogsByStatus: ids of the rows with that status. *)
getActivityLogsByStatus(status) ==
  { i \in LogIds : activityLogs[i].status = status }

RECURSIVE idsInOrder(_, _)
idsInOrder(S, n) ==
  IF n = 0 THEN << >>
  ELSE IF n \in S THEN Append(idsInOrder(S, n - 1), n)
       ELSE idsInOrder(S, n - 1)

(* Mutant: the filter only asks for a scheduleTime, not for a due one. *)
getPendingScheduledActionsAnyTime(callNow) ==
  idsInOrder({ i \in getActivityLogsByStatus("scheduled") :
                 activityLogs[i].scheduleTime # NULL },
             Len(activityLogs))

(* Mutant: the comparison is turned round, the query returns what is not   *)
(* yet due.                                                                *)
getPendingScheduledActionsNotYetDue(callNow) ==
  idsInOrder({ i \in getActivityLogsByStatus("scheduled") :
                 /\ activityLogs[i].scheduleTime # NULL
                 /\ activityLogs[i].scheduleTime >= callNow },
             Len(activityLogs))

(* getPendingScheduledActions: status = scheduled, scheduleTime set and    *)
(* not later than the `now` read when the call was made.                   *)
getPendingScheduledActions(callNow) ==
  idsInOrder({ i \in getActivityLogsByStatus("scheduled") :
                 /\ activityLogs[i].scheduleTime # NULL
                 /\ activityLogs[i].scheduleTime <= callNow },
             Len(activityLogs))

(* Mutant: the UPDATE leaves the status column alone. *)
markActivityLogAsExecutedKeepsStatus(id, status, details) ==
  [ activityLogs EXCEPT ![id] =
      [ @ EXCEPT !.executedAt = now,
                 !.executionDuration = 0,
                 !.details = details ] ]

(* markActivityLogAsExecuted: one UPDATE ... WHERE id = ?, no status guard; *)
(* details, when given, replace the column. executionDuration is the       *)
(* difference of two clock reads in the same synchronous block. The clock  *)
(* is read at the step that applies the UPDATE.                            *)
markActivityLogAsExecuted(id, status, details) ==
  [ activityLogs EXCEPT ![id] =
      [ @ EXCEPT !.status = status,
                 !.executedAt = now,
                 !.executionDuration = 0,
                 !.details = details ] ]

(* ------------------------ mockExecuteAction --------------------------- *)
(* actionDetails.k || default: a missing or empty value gives the default. *)
Get(d, k, default) == IF k \in DOMAIN d /\ d[k] # "" THEN d[k] ELSE default

(* Mutant: the action-specific fields are filled in before success is      *)
(* looked at, so a failure carries them too.                               *)
mockExecuteActionFieldsOnFailure(actionName, actionDetails, success, at) ==
  LET base == [ success |-> success, executedAt |-> at ]
      fields == [ actionResult |-> << "Executed", actionName, "successfully" >> ] IN
  IF success THEN fields @@ base
  ELSE [ error |-> << "Mock failure: Could not execute", actionName >>,
         errorCode |-> "MOCK_ERROR" ] @@ fields @@ base

mockExecuteAction(actionName, actionDetails, success, at) ==
  LET base == [ success |-> success, executedAt |-> at ] IN
  IF success THEN
    CASE actionName = "Send email" ->
           [ messageId |-> "msg_*",
             recipient |-> Get(actionDetails, "recipient", "default@example.com"),
             subject |-> Get(actionDetails, "subject", "Notification") ] @@ base
      [] actionName = "Send Slack notification" ->
           [ messageId |-> "slack_*",
             channel |-> Get(actionDetails, "channel", "#general") ] @@ base
      [] actionName = "Create task" ->
           [ taskId |-> "task_*",
             taskName |-> Get(actionDetails, "taskName", "New Task"),
             assignee |-> Get(actionDetails, "assignee", "Unassigned") ] @@ base
      [] OTHER ->
           [ actionResult |-> << "Executed", actionName, "successfully" >> ] @@ base
  ELSE
    [ error |-> << "Mock failure: Could not execute", actionName >>,
      errorCode |-> "MOCK_ERROR" ] @@ base

(* --------------------------- the clock -------------------------------- *)
Advance ==
  /\ now < MaxMinutes * MinuteMs
  /\ now' = now + MinuteMs
  /\ UNCHANGED << storeUp, rules, activityLogs, schedVars, passes, execCount,
                  markCount, caught, crashed, imm, restarts, deleteCalledFor, trig, logged >>

(* The database becomes unreachable, or reachable again. *)
StoreFail ==
  /\ storeUp
  /\ storeUp' = FALSE
  /\ UNCHANGED << now, rules, activityLogs, schedVars, passes, execCount,
                  markCount, caught, crashed, imm, restarts, deleteCalledFor, trig, logged >>

StoreRecover ==
  /\ ~storeUp
  /\ storeUp' = TRUE
  /\ UNCHANGED << now, rules, activityLogs, schedVars, passes, execCount,
                  markCount, caught, crashed, imm, restarts, deleteCalledFor, trig, logged >>

(* ------------------- processScheduledActions -------------------------- *)
(* The counters of executor calls and of status writes saturate. *)
Bump(c) == IF c < MaxPasses THEN c + 1 ELSE c

FreePasses == { p \in PassIds : passes[p].pc = "idle" }

PassInFlight == FreePasses # PassIds

(* A call of processScheduledActions: it runs synchronously up to its      *)
(* first await, inside getPendingScheduledActions, which has read `now`.   *)
processScheduledActions(p) ==
  [ passes EXCEPT ![p] = [ IdlePass EXCEPT !.pc = "getPending", !.queryNow = now ] ]

(* Mutant: no try/catch around the pass; the rejection is unhandled and   *)
(* ends the process, timer included.                                       *)
processScheduledActionsRethrows(p) ==
  /\ passes' = [ passes EXCEPT ![p] = IdlePass ]
  /\ crashed' = TRUE
  /\ liveTimers' = 0
  /\ UNCHANGED << caught, isRunning, schedulerInterval, intervalMs >>

(* The catch of processScheduledActions: log, and the pass is over. *)
processScheduledActionsCatch(p) ==
  /\ passes' = [ passes EXCEPT ![p] = IdlePass ]
  /\ caught' = TRUE
  /\ UNCHANGED << crashed, schedVars >>

(* executeAction(id) has returned: the for loop takes the next pending id  *)
(* (calling executeAction, which awaits getActivityLogsByStatus), or the   *)
(* pass returns.                                                           *)
executeActionReturns(p) ==
  IF passes[p].idx < Len(passes[p].pending)
    THEN [ passes EXCEPT ![p].idx = @ + 1, ![p].pc = "getLogs",
                         ![p].details = EmptyDetails,
                         ![p].result = EmptyDetails,
                         ![p].error = "" ]
    ELSE [ passes EXCEPT ![p] = IdlePass ]

(* Mutant: no catch in executeAction, the loop swallows the rejection and  *)
(* goes on with the next entry.                                            *)
executeActionThrowsSkipsEntry(p, message) ==
  IF passes[p].idx < Len(passes[p].pending)
    THEN [ passes EXCEPT ![p].idx = @ + 1, ![p].pc = "getLogs" ]
    ELSE [ passes EXCEPT ![p] = IdlePass ]

(* An await inside the try of executeAction rejects: control enters its    *)
(* catch, which awaits markActivityLogAsExecuted(failed, {error}).         *)
executeActionThrows(p, message) ==
  [ passes EXCEPT ![p].pc = "catch", ![p].error = message ]

activityLogId(p) == passes[p].pending[passes[p].idx]

(* await storage.getPendingScheduledActions() resolves or rejects. *)
PassGetPending(p) ==
  /\ passes[p].pc = "getPending"
  /\ IF ~storeUp THEN processScheduledActionsCatch(p)
     ELSE LET pendingActions == getPendingScheduledActions(passes[p].queryNow) IN
       /\ passes' =
            IF Len(pendingActions) = 0
              THEN [ passes EXCEPT ![p] = IdlePass ]
              ELSE [ passes EXCEPT ![p].pc = "getLogs",
                                   ![p].pending = pendingActions,
                                   ![p].idx = 1, ![p].queryNow = 0 ]
       /\ UNCHANGED << caught, crashed, schedVars >>
  /\ UNCHANGED << now, storeUp, rules, activityLogs, execCount, markCount,
                  imm, restarts, deleteCalledFor, trig, logged >>

(* Mutant: the entry is not looked up among the scheduled ones again. *)
ExecGetLogsNoStatusCheck(p) ==
  /\ passes[p].pc = "getLogs"
  /\ passes' =
       IF ~storeUp THEN executeActionThrows(p, StoreError)
       ELSE [ passes EXCEPT ![p].pc = "getRule",
                ![p].details = activityLogs[activityLogId(p)].details ]
  /\ UNCHANGED << now, storeUp, rules, activityLogs, schedVars, execCount,
                  markCount, caught, crashed, imm, restarts, deleteCalledFor, trig, logged >>

(* await storage.getActivityLogsByStatus('scheduled'), then find by id. *)
ExecGetLogs(p) ==
  /\ passes[p].pc = "getLogs"
  /\ passes' =
       IF ~storeUp THEN executeActionThrows(p, StoreError)
       ELSE IF activityLogId(p) \notin getActivityLogsByStatus("scheduled")
         THEN executeActionReturns(p)
         ELSE [ passes EXCEPT ![p].pc = "getRule",
                  ![p].details = activityLogs[activityLogId(p)].details ]
  /\ UNCHANGED << now, storeUp, rules, activityLogs, schedVars, execCount,
                  markCount, caught, crashed, imm, restarts, deleteCalledFor, trig, logged >>

(* await storage.getRuleById(activityLog.ruleId), then the two checks. *)
ExecGetRule(p) ==
  /\ passes[p].pc = "getRule"
  /\ LET rule == getRuleById(activityLogs[activityLogId(p)].ruleId) IN
     passes' =
       IF ~storeUp THEN executeActionThrows(p, StoreError)
       ELSE IF ~rule.exists THEN [ passes EXCEPT ![p].pc = "markRuleNotFound" ]
       ELSE IF ~rule.isActive THEN [ passes EXCEPT ![p].pc = "markRuleInactive" ]
       ELSE [ passes EXCEPT ![p].pc = "getAction" ]
  /\ UNCHANGED << now, storeUp, rules, activityLogs, schedVars, execCount,
                  markCount, caught, crashed, imm, restarts, deleteCalledFor, trig, logged >>

(* Mutant: the inactive branch reports the missing-rule error. *)
earlyExitDetailsSameError(pc) ==
  CASE pc = "markActionNotFound" -> [ error |-> "Action not found" ]
    [] OTHER -> [ error |-> "Rule not found", status |-> "canceled" ]

earlyExitDetails(pc) ==
  CASE pc = "markRuleNotFound" -> [ error |-> "Rule not found", status |-> "canceled" ]
    [] pc = "markRuleInactive" -> [ error |-> "Rule is inactive", status |-> "canceled" ]
    [] OTHER -> [ error |-> "Action not found" ]

(* The awaited markActivityLogAsExecuted(id, 'failed', {...}) of an early  *)
(* exit, followed by return.                                               *)
ExecMarkEarlyExit(p) ==
  /\ passes[p].pc \in {"markRuleNotFound", "markRuleInactive", "markActionNotFound"}
  /\ IF ~storeUp
       THEN /\ passes' = executeActionThrows(p, StoreError)
            /\ UNCHANGED << activityLogs, markCount >>
       ELSE /\ activityLogs' = markActivityLogAsExecuted(activityLogId(p), "failed",
                                 earlyExitDetails(passes[p].pc))
            /\ markCount' = [ markCount EXCEPT ![activityLogId(p)] = Bump(@) ]
            /\ passes' = executeActionReturns(p)
  /\ UNCHANGED << now, storeUp, rules, schedVars, execCount, caught, crashed,
                  imm, restarts, deleteCalledFor, trig, logged >>

(* await storage.getActionById(rule.actionId); when found, the executor is *)
(* called and the pass awaits it.                                          *)
ExecGetAction(p) ==
  /\ passes[p].pc = "getAction"
  /\ LET rule == rules[activityLogs[activityLogId(p)].ruleId]
         action == getActionById(rule.actionId) IN
     IF ~storeUp
       THEN /\ passes' = executeActionThrows(p, StoreError)
            /\ UNCHANGED execCount
     ELSE IF action = ""
       THEN /\ passes' = [ passes EXCEPT ![p].pc = "markActionNotFound" ]
            /\ UNCHANGED execCount
       ELSE /\ passes' = [ passes EXCEPT ![p].pc = "executing" ]
            /\ execCount' = [ execCount EXCEPT ![activityLogId(p)] = Bump(@) ]
  /\ UNCHANGED << now, storeUp, rules, activityLogs, schedVars, markCount,
                  caught, crashed, imm, restarts, deleteCalledFor, trig, logged >>

(* await this.mockExecuteAction(...) resolves, success drawn at random. *)
ExecExecutorReturns(p) ==
  /\ passes[p].pc = "executing"
  /\ \E success \in BOOLEAN :
       LET rule == rules[activityLogs[activityLogId(p)].ruleId] IN
       passes' = [ passes EXCEPT ![p].pc = "updateRule",
                     ![p].result = mockExecuteAction(getActionById(rule.actionId),
                                      rule.actionDetails, success, now) ]
  /\ UNCHANGED << now, storeUp, rules, activityLogs, schedVars, execCount,
                  markCount, caught, crashed, imm, restarts, deleteCalledFor, trig, logged >>

(* await storage.updateRuleLastTriggered(rule.id) *)
ExecUpdateRule(p) ==
  /\ passes[p].pc = "updateRule"
  /\ IF ~storeUp
       THEN /\ passes' = executeActionThrows(p, StoreError)
            /\ UNCHANGED rules
       ELSE /\ rules' = updateRuleLastTriggered(activityLogs[activityLogId(p)].ruleId)
            /\ passes' = [ passes EXCEPT ![p].pc = "markResult" ]
  /\ UNCHANGED << now, storeUp, activityLogs, schedVars, execCount, markCount,
                  caught, crashed, imm, restarts, deleteCalledFor, trig, logged >>

(* Mutant: the status written does not look at the executor's result. *)
resultStatusAlwaysSuccess(executionResult) == "success"

resultStatus(executionResult) ==
  IF executionResult.success THEN "success" ELSE "failed"

(* await storage.markActivityLogAsExecuted(id, status,                     *)
(*         {...activityLog.details, execution: executionResult})           *)
ExecMarkResult(p) ==
  /\ passes[p].pc = "markResult"
  /\ IF ~storeUp
       THEN /\ passes' = executeActionThrows(p, StoreError)
            /\ UNCHANGED << activityLogs, markCount >>
       ELSE /\ activityLogs' = markActivityLogAsExecuted(activityLogId(p),
                                 resultStatus(passes[p].result),
                                 [ execution |-> passes[p].result ] @@ passes[p].details)
            /\ markCount' = [ markCount EXCEPT ![activityLogId(p)] = Bump(@) ]
            /\ passes' = executeActionReturns(p)
  /\ UNCHANGED << now, storeUp, rules, schedVars, execCount, caught, crashed,
                  imm, restarts, deleteCalledFor, trig, logged >>

(* The catch of executeAction: await markActivityLogAsExecuted(id,         *)
(* 'failed', {error: message}). A rejection here leaves executeAction and  *)
(* the for loop, and reaches the catch of processScheduledActions.         *)
ExecCatch(p) ==
  /\ passes[p].pc = "catch"
  /\ IF ~storeUp
       THEN /\ processScheduledActionsCatch(p)
            /\ UNCHANGED << activityLogs, markCount >>
       ELSE /\ activityLogs' = markActivityLogAsExecuted(activityLogId(p), "failed",
                                 [ error |-> passes[p].error ])
            /\ markCount' = [ markCount EXCEPT ![activityLogId(p)] = Bump(@) ]
            /\ passes' = executeActionReturns(p)
            /\ UNCHANGED << caught, crashed, schedVars >>
  /\ UNCHANGED << now, storeUp, rules, execCount, imm, restarts, deleteCalledFor, trig, logged >>

(* ------------------------- start / stop / timer ------------------------ *)
IntervalArgs == {0, 5000}   \* 0 stands for "no argument" (undefined is falsy)

LowestFree == CHOOSE p \in FreePasses : \A q \in FreePasses : p <= q

(* The lines 'Scheduler is already running' and 'Scheduler is not running' *)
(* are counted up to MaxNoopCalls.                                         *)
log(line) ==
  [ logged EXCEPT ![line] = IF @ < MaxNoopCalls THEN @ + 1 ELSE @ ]

(* Mutant: no isRunning check, every call arms a timer. *)
startNoGuard(arg) ==
  /\ FreePasses # {}
  /\ intervalMs' = IF arg # 0 THEN arg ELSE intervalMs
  /\ isRunning' = TRUE
  /\ schedulerInterval' = 1
  /\ liveTimers' = liveTimers + 1
  /\ passes' = processScheduledActions(LowestFree)
  /\ UNCHANGED << now, storeUp, rules, activityLogs, execCount, markCount,
                  caught, crashed, imm, restarts, deleteCalledFor, trig, logged >>

(* Mutant: the timer is armed, the first pass waits for the first tick. *)
startNoImmediatePass(arg) ==
  /\ FreePasses # {}
  /\ IF isRunning
       THEN /\ logged' = log("alreadyRunning")
            /\ UNCHANGED << schedVars, passes >>
       ELSE /\ intervalMs' = IF arg # 0 THEN arg ELSE intervalMs
            /\ isRunning' = TRUE
            /\ schedulerInterval' = 1
            /\ liveTimers' = liveTimers + 1
            /\ UNCHANGED << passes, logged >>
  /\ UNCHANGED << now, storeUp, rules, activityLogs, execCount, markCount,
                  caught, crashed, imm, restarts, deleteCalledFor, trig >>

(* start(intervalMs?) *)
start(arg) ==
  /\ FreePasses # {}
  /\ IF isRunning
       THEN /\ logged' = log("alreadyRunning")
            /\ UNCHANGED << schedVars, passes >>
       ELSE /\ intervalMs' = IF arg # 0 THEN arg ELSE intervalMs
            /\ isRunning' = TRUE
            /\ schedulerInterval' = 1
            /\ liveTimers' = liveTimers + 1
            /\ passes' = processScheduledActions(LowestFree)
            /\ UNCHANGED logged
  /\ UNCHANGED << now, storeUp, rules, activityLogs, execCount, markCount,
                  caught, crashed, imm, restarts, deleteCalledFor, trig >>

(* Mutant: the flags are reset, clearInterval is not called. *)
stopKeepsTimer ==
  /\ IF ~isRunning \/ schedulerInterval = NULL
       THEN /\ logged' = log("notRunning")
            /\ UNCHANGED schedVars
       ELSE /\ isRunning' = FALSE
            /\ schedulerInterval' = NULL
            /\ UNCHANGED << intervalMs, liveTimers, logged >>
  /\ UNCHANGED << now, storeUp, rules, activityLogs, passes, execCount,
                  markCount, caught, crashed, imm, restarts, deleteCalledFor, trig >>

(* Mutant: the timer is cleared, the handle is not set to null. *)
stopKeepsHandle ==
  /\ IF ~isRunning \/ schedulerInterval = NULL
       THEN /\ logged' = log("notRunning")
            /\ UNCHANGED schedVars
       ELSE /\ liveTimers' = liveTimers - 1
            /\ isRunning' = FALSE
            /\ UNCHANGED << schedulerInterval, intervalMs, logged >>
  /\ UNCHANGED << now, storeUp, rules, activityLogs, passes, execCount,
                  markCount, caught, crashed, imm, restarts, deleteCalledFor, trig >>

(* Mutant: stop also abandons the passes in flight. *)
stopCancelsPasses ==
  /\ IF ~isRunning \/ schedulerInterval = NULL
       THEN /\ logged' = log("notRunning")
            /\ UNCHANGED << schedVars, passes >>
       ELSE /\ liveTimers' = liveTimers - 1
            /\ isRunning' = FALSE
            /\ schedulerInterval' = NULL
            /\ passes' = [ p \in PassIds |-> IdlePass ]
            /\ UNCHANGED << intervalMs, logged >>
  /\ UNCHANGED << now, storeUp, rules, activityLogs, execCount,
                  markCount, caught, crashed, imm, restarts, deleteCalledFor, trig >>

(* stop() *)
stop ==
  /\ IF ~isRunning \/ schedulerInterval = NULL
       THEN /\ logged' = log("notRunning")
            /\ UNCHANGED schedVars
       ELSE /\ liveTimers' = liveTimers - 1
            /\ isRunning' = FALSE
            /\ schedulerInterval' = NULL
            /\ UNCHANGED << intervalMs, logged >>
  /\ UNCHANGED << now, storeUp, rules, activityLogs, passes, execCount,
                  markCount, caught, crashed, imm, restarts, deleteCalledFor, trig >>

(* The setInterval callback fires: () => this.processScheduledActions() *)
Tick ==
  /\ liveTimers > 0
  /\ FreePasses # {}
  /\ passes' = processScheduledActions(LowestFree)
  /\ UNCHANGED << now, storeUp, rules, activityLogs, schedVars, execCount,
                  markCount, caught, crashed, imm, restarts, deleteCalledFor, trig, logged >>

(* The process exits and is started again: the timer, the flags and every  *)
(* pass and call in flight are gone, the tables are kept.                  *)
Restart ==
  /\ restarts < MaxRestarts
  /\ restarts' = restarts + 1
  /\ isRunning' = FALSE
  /\ schedulerInterval' = NULL
  /\ intervalMs' = DefaultIntervalMs
  /\ liveTimers' = 0
  /\ passes' = [ p \in PassIds |-> IdlePass ]
  /\ imm' = IdleImm
  /\ trig' = IdleTrig
  /\ UNCHANGED << now, storeUp, rules, activityLogs, execCount, markCount,
                  caught, crashed, deleteCalledFor, logged >>

(* --------------------------- scheduleAction ---------------------------- *)
(* Delays and payloads of the calls examined on their own; the payload     *)
(* defaults to {}.                                                         *)
ScheduleDelayArgs == 0..(MaxMinutes + 1)

ScheduleDetailsArgs ==
  DetailsArgs \cup { EmptyDetails, [ triggerTime |-> "t0", rule |-> "Welcome" ] }

(* Mutant: the delay is taken as seconds. *)
scheduleActionDelayInSeconds(ruleId, delayMinutes, details) ==
  /\ Len(activityLogs) < MaxLogs
  /\ LET scheduleTime == now + delayMinutes * MsPerSecond IN
     activityLogs' =
       IF storeUp /\ getRuleById(ruleId).exists
         THEN createActivityLog(
                [ ruleId |-> ruleId, status |-> "scheduled", details |-> details,
                  scheduleTime |-> scheduleTime, triggeredAt |-> now,
                  executedAt |-> NULL, executionDuration |-> NULL ])
         ELSE activityLogs
  /\ UNCHANGED << now, storeUp, rules, schedVars, passes, execCount, markCount,
                  caught, crashed, imm, restarts, deleteCalledFor, trig, logged >>

scheduleAction(ruleId, delayMinutes, details) ==
  /\ Len(activityLogs) < MaxLogs
  /\ LET scheduleTime == now + delayMinutes * SecondsPerMinute * MsPerSecond IN
     activityLogs' =
       IF storeUp /\ getRuleById(ruleId).exists
         THEN createActivityLog(
                [ ruleId |-> ruleId, status |-> "scheduled", details |-> details,
                  scheduleTime |-> scheduleTime, triggeredAt |-> now,
                  executedAt |-> NULL, executionDuration |-> NULL ])
         ELSE activityLogs
  /\ UNCHANGED << now, storeUp, rules, schedVars, passes, execCount, markCount,
                  caught, crashed, imm, restarts, deleteCalledFor, trig, logged >>

(* ------------------ rule endpoints used by the claims ------------------ *)
(* POST /api/rules/:id/toggle -> storage.toggleRuleActive(id) *)
toggleRuleActive(id) ==
  /\ storeUp
  /\ rules[id].exists
  /\ rules' = [ rules EXCEPT ![id].isActive = ~@ ]
  /\ UNCHANGED << now, storeUp, activityLogs, schedVars, passes, execCount,
                  markCount, caught, crashed, imm, restarts, deleteCalledFor, trig, logged >>

(* DELETE /api/rules/:id -> storage.deleteRule(id): the DELETE is rejected *)
(* while a row of activity_logs references the rule.                       *)
deleteRule(id) ==
  /\ storeUp
  /\ rules[id].exists
  /\ rules' = IF ruleIdReferenced(id) THEN rules
              ELSE [ rules EXCEPT ![id].exists = FALSE ]
  /\ deleteCalledFor' = deleteCalledFor \cup
       { i \in getActivityLogsByStatus("scheduled") : activityLogs[i].ruleId = id }
  /\ UNCHANGED << now, storeUp, activityLogs, schedVars, passes, execCount,
                  markCount, caught, crashed, imm, restarts, trig, logged >>

(* PUT /api/rules/:id -> storage.updateRule(id, {actionType}) *)
ActionTypes == { "immediate", "scheduled" }

updateRule(id, actionType) ==
  /\ storeUp
  /\ rules[id].exists
  /\ rules[id].actionType # actionType
  /\ rules' = [ rules EXCEPT ![id].actionType = actionType ]
  /\ UNCHANGED << now, storeUp, activityLogs, schedVars, passes, execCount,
                  markCount, caught, crashed, imm, restarts, deleteCalledFor,
                  trig, logged >>

(* -------------------- POST /api/rules/:id/trigger ---------------------- *)
respond(code) ==
  [ trig EXCEPT !.pc = "idle", !.response = code ]

(* The request arrives: the handler runs up to await getRuleById(id). *)
triggerRule(id) ==
  /\ trig.pc = "idle"
  /\ Len(activityLogs) < MaxLogs
  /\ trig' = [ IdleTrig EXCEPT !.pc = "getRule", !.ruleId = id ]
  /\ UNCHANGED << now, storeUp, rules, activityLogs, schedVars, passes,
                  execCount, markCount, caught, crashed, imm, restarts,
                  deleteCalledFor, logged >>

(* await storage.getRuleById(id), the two checks, and the call of          *)
(* updateRuleLastTriggered.                                                *)
TrigGetRule ==
  /\ trig.pc = "getRule"
  /\ LET rule == getRuleById(trig.ruleId) IN
     trig' =
       IF ~storeUp THEN respond(500)
       ELSE IF ~rule.exists THEN respond(404)
       ELSE IF ~rule.isActive THEN respond(400)
       ELSE [ trig EXCEPT !.pc = "updateRule",
                          !.actionType = rule.actionType,
                          !.scheduleDelay = rule.scheduleDelay ]
  /\ UNCHANGED << now, storeUp, rules, activityLogs, schedVars, passes,
                  execCount, markCount, caught, crashed, imm, restarts,
                  deleteCalledFor, logged >>

(* await storage.updateRuleLastTriggered(id); then executionTime is read   *)
(* and createActivityLog is called.                                        *)
TrigUpdateRule ==
  /\ trig.pc = "updateRule"
  /\ IF ~storeUp
       THEN /\ trig' = respond(500)
            /\ UNCHANGED rules
       ELSE /\ rules' = updateRuleLastTriggered(trig.ruleId)
            /\ trig' = [ trig EXCEPT !.pc = "createLog", !.executionTime = now ]
  /\ UNCHANGED << now, storeUp, activityLogs, schedVars, passes, execCount,
                  markCount, caught, crashed, imm, restarts, deleteCalledFor,
                  logged >>

(* The row the handler inserts: ruleId, status and details only; the other *)
(* columns take their defaults (triggered_at now(), the rest null).        *)
triggerLogData ==
  [ ruleId |-> trig.ruleId,
    status |-> IF trig.actionType = "immediate" THEN "success" ELSE "scheduled",
    details |->
      [ executedAt |-> trig.executionTime,
        scheduledFor |->
          IF trig.actionType = "scheduled"
            THEN trig.executionTime + trig.scheduleDelay * 60 * 1000
            ELSE NULL,
        triggerConditions |-> << >>,
        actionDetails |-> rules[trig.ruleId].actionDetails ],
    triggeredAt |-> now,
    scheduleTime |-> NULL,
    executedAt |-> NULL,
    executionDuration |-> NULL ]

(* await storage.createActivityLog({ruleId, status, details}); res.json *)
TrigCreateLog ==
  /\ trig.pc = "createLog"
  /\ Len(activityLogs) < MaxLogs
  /\ IF ~storeUp \/ ~getRuleById(trig.ruleId).exists
       THEN /\ trig' = respond(500)
            /\ UNCHANGED activityLogs
       ELSE /\ activityLogs' = createActivityLog(triggerLogData)
            /\ trig' = respond(200)
  /\ UNCHANGED << now, storeUp, rules, schedVars, passes, execCount,
                  markCount, caught, crashed, imm, restarts, deleteCalledFor,
                  logged >>

(* ---------------------- triggerImmediateAction ------------------------- *)
immThrows(message) ==
  [ imm EXCEPT !.pc = "idle", !.outcome = message ]

(* The call: runs up to await storage.getRuleById(ruleId). *)
triggerImmediateAction(ruleId) ==
  /\ imm.pc = "idle"
  /\ Len(activityLogs) < MaxLogs
  /\ imm' = [ IdleImm EXCEPT !.pc = "getRule", !.ruleId = ruleId ]
  /\ UNCHANGED << now, storeUp, rules, activityLogs, schedVars, passes,
                  execCount, markCount, caught, crashed, restarts,
                  deleteCalledFor, trig, logged >>

(* Mutant: the isActive check is missing. *)
ImmGetRuleNoActiveCheck ==
  /\ imm.pc = "getRule"
  /\ LET rule == getRuleById(imm.ruleId) IN
     imm' =
       IF ~storeUp THEN immThrows(<< StoreError >>)
       ELSE IF ~rule.exists
         THEN immThrows(<< "Rule with ID", imm.ruleId, "not found" >>)
       ELSE [ imm EXCEPT !.pc = "getAction" ]
  /\ UNCHANGED << now, storeUp, rules, activityLogs, schedVars, passes,
                  execCount, markCount, caught, crashed, restarts,
                  deleteCalledFor, trig, logged >>

(* Mutant: a missing rule is reported with the inactive-rule error. *)
ImmGetRuleOneError ==
  /\ imm.pc = "getRule"
  /\ LET rule == getRuleById(imm.ruleId) IN
     imm' =
       IF ~storeUp THEN immThrows(<< StoreError >>)
       ELSE IF ~rule.exists \/ ~rule.isActive
         THEN immThrows(<< "Rule with ID", imm.ruleId, "is inactive" >>)
       ELSE [ imm EXCEPT !.pc = "getAction" ]
  /\ UNCHANGED << now, storeUp, rules, activityLogs, schedVars, passes,
                  execCount, markCount, caught, crashed, restarts,
                  deleteCalledFor, trig, logged >>

ImmGetRule ==
  /\ imm.pc = "getRule"
  /\ LET rule == getRuleById(imm.ruleId) IN
     imm' =
       IF ~storeUp THEN immThrows(<< StoreError >>)
       ELSE IF ~rule.exists
         THEN immThrows(<< "Rule with ID", imm.ruleId, "not found" >>)
       ELSE IF ~rule.isActive
         THEN immThrows(<< "Rule with ID", imm.ruleId, "is inactive" >>)
       ELSE [ imm EXCEPT !.pc = "getAction" ]
  /\ UNCHANGED << now, storeUp, rules, activityLogs, schedVars, passes,
                  execCount, markCount, caught, crashed, restarts,
                  deleteCalledFor, trig, logged >>

ImmGetAction ==
  /\ imm.pc = "getAction"
  /\ LET actionId == rules[imm.ruleId].actionId IN
     imm' =
       IF ~storeUp THEN immThrows(<< StoreError >>)
       ELSE IF getActionById(actionId) = ""
         THEN immThrows(<< "Action with ID", actionId, "not found" >>)
       ELSE [ imm EXCEPT !.pc = "executing", !.invoked = TRUE,
                          !.calledAt = now ]
  /\ UNCHANGED << now, storeUp, rules, activityLogs, schedVars, passes,
                  execCount, markCount, caught, crashed, restarts,
                  deleteCalledFor, trig, logged >>

(* mockExecuteAction resolves; `now`, executionStart and executionEnd are  *)
(* read, and createActivityLog is called with them.                         *)
ImmExecutorReturns ==
  /\ imm.pc = "executing"
  /\ \E success \in BOOLEAN :
       LET rule == rules[imm.ruleId] IN
       imm' = [ imm EXCEPT !.pc = "createLog", !.at = now,
                  !.result = mockExecuteAction(getActionById(rule.actionId),
                                rule.actionDetails, success, now) ]
  /\ UNCHANGED << now, storeUp, rules, activityLogs, schedVars, passes,
                  execCount, markCount, caught, crashed, restarts,
                  deleteCalledFor, trig, logged >>

(* Mutant: triggeredAt is left to the column default, the time of the     *)
(* INSERT.                                                                 *)
ImmCreateLogDefaultTriggeredAt ==
  /\ imm.pc = "createLog"
  /\ Len(activityLogs) < MaxLogs
  /\ activityLogs' = createActivityLog(
         [ ruleId |-> imm.ruleId,
           status |-> resultStatus(imm.result),
           triggeredAt |-> now,
           executedAt |-> imm.at,
           executionDuration |-> 0,
           scheduleTime |-> NULL,
           details |-> [ executedAt |-> imm.at,
                         triggerTime |-> imm.at,
                         actionName |-> getActionById(rules[imm.ruleId].actionId),
                         executionResult |-> imm.result ] ])
  /\ imm' = [ imm EXCEPT !.pc = "updateRule",
                         !.returned = Len(activityLogs) + 1 ]
  /\ UNCHANGED << now, storeUp, rules, schedVars, passes, execCount,
                  markCount, caught, crashed, restarts, deleteCalledFor, trig, logged >>

ImmCreateLog ==
  /\ imm.pc = "createLog"
  /\ Len(activityLogs) < MaxLogs
  /\ IF ~storeUp
       THEN /\ imm' = immThrows(<< StoreError >>)
            /\ UNCHANGED activityLogs
     ELSE IF ~getRuleById(imm.ruleId).exists
       THEN /\ imm' = immThrows(<< "violates foreign key constraint" >>)
            /\ UNCHANGED activityLogs
       ELSE /\ activityLogs' = createActivityLog(
                 [ ruleId |-> imm.ruleId,
                   status |-> resultStatus(imm.result),
                   triggeredAt |-> imm.at,
                   executedAt |-> imm.at,
                   executionDuration |-> 0,
                   scheduleTime |-> NULL,
                   details |-> [ executedAt |-> imm.at,
                                 triggerTime |-> imm.at,
                                 actionName |-> getActionById(rules[imm.ruleId].actionId),
                                 executionResult |-> imm.result ] ])
            /\ imm' = [ imm EXCEPT !.pc = "updateRule",
                                   !.returned = Len(activityLogs) + 1 ]
  /\ UNCHANGED << now, storeUp, rules, schedVars, passes, execCount,
                  markCount, caught, crashed, restarts, deleteCalledFor, trig, logged >>

ImmUpdateRule ==
  /\ imm.pc = "updateRule"
  /\ IF ~storeUp
       THEN /\ imm' = immThrows(<< StoreError >>)
            /\ UNCHANGED rules
       ELSE /\ rules' = updateRuleLastTriggered(imm.ruleId)
            /\ imm' = [ imm EXCEPT !.pc = "idle", !.outcome = << "returned" >> ]
  /\ UNCHANGED << now, storeUp, activityLogs, schedVars, passes, execCount,
                  markCount, caught, crashed, restarts, deleteCalledFor, trig, logged >>

(* ---------------------------- specifications --------------------------- *)
PassStep(p) ==
  \/ PassGetPending(p)
  \/ ExecGetLogs(p)
  \/ ExecGetRule(p)
  \/ ExecMarkEarlyExit(p)
  \/ ExecGetAction(p)
  \/ ExecExecutorReturns(p)
  \/ ExecUpdateRule(p)
  \/ ExecMarkResult(p)

ApiStep ==
  \/ \E r \in RuleIds, d \in DelayArgs, details \in DetailsArgs :
       scheduleAction(r, d, details)
  \/ \E r \in RuleIds : toggleRuleActive(r)

DeleteStep == \E r \in RuleIds : deleteRule(r)

ImmStep ==
  \/ \E r \in RuleIdArgs : triggerImmediateAction(r)
  \/ ImmGetRule
  \/ ImmGetAction
  \/ ImmExecutorReturns
  \/ ImmCreateLog
  \/ ImmUpdateRule

(* start is called on a stopped scheduler and stop on a running one; the  *)
(* calls that find nothing to do are those of NextLifecycle.              *)
LifecycleStep ==
  \/ (~isRunning /\ start(0))
  \/ (isRunning /\ stop)
  \/ Tick

(* The scheduler over a database that answers; a tick may start a pass    *)
(* while an earlier pass is still awaiting.                                *)
Next ==
  \/ Advance
  \/ LifecycleStep
  \/ \E p \in PassIds : PassStep(p)
  \/ ApiStep

Spec == Init /\ [][Next]_vars

(* Passes one after another: a pass begins only when none is in flight. *)
SeqLifecycleStep ==
  \/ (~PassInFlight /\ ~isRunning /\ start(0))
  \/ (isRunning /\ stop)
  \/ (~PassInFlight /\ Tick)

NextSeqCore ==
  \/ Advance
  \/ SeqLifecycleStep
  \/ \E p \in PassIds : PassStep(p)
  \/ ApiStep

(* ... and rules may be deleted through DELETE /api/rules/:id. *)
NextSeq ==
  \/ NextSeqCore
  \/ DeleteStep

SpecSeq == Init /\ [][NextSeq]_vars

(* Passes one after another over a database that may fail. *)
NextFault ==
  \/ NextSeqCore
  \/ StoreFail
  \/ StoreRecover
  \/ \E p \in PassIds : ExecCatch(p)

SpecFault == Init /\ [][NextFault]_vars

(* Passes one after another with process restarts, under the fairness the  *)
(* event loop gives: a started scheduler's timer fires, every await        *)
(* completes, and a stopped scheduler is started again.                    *)
NextLive ==
  \/ NextSeqCore
  \/ Restart

Fairness ==
  /\ WF_vars(~PassInFlight /\ ~isRunning /\ start(0))
  /\ WF_vars(~PassInFlight /\ Tick)
  /\ \A p \in PassIds : WF_vars(PassStep(p))

SpecLive == Init /\ [][NextLive]_vars /\ Fairness

(* Passes one after another where only the awaits of a pass are fair: the  *)
(* scheduler may stay stopped for ever.                                    *)
SpecStop ==
  Init /\ [][NextSeqCore]_vars /\ \A p \in PassIds : WF_vars(PassStep(p))

(* The immediate trigger path beside the rule endpoints. *)
NextTrigger ==
  \/ Advance
  \/ ApiStep
  \/ DeleteStep
  \/ ImmStep

SpecTrigger == Init /\ [][NextTrigger]_vars

(* The rule endpoints of routes.ts beside the scheduler, passes one after *)
(* another.                                                                *)
RoutesStep ==
  \/ \E r \in RuleIdArgs : triggerRule(r)
  \/ TrigGetRule
  \/ TrigUpdateRule
  \/ TrigCreateLog
  \/ \E r \in RuleIds, t \in ActionTypes : updateRule(r, t)

NextRoutes ==
  \/ NextSeqCore
  \/ RoutesStep

SpecRoutes == Init /\ [][NextRoutes]_vars

(* start and stop called in any state, with and without an interval; the *)
(* table of entries is empty, so every pass ends with its query.           *)
NextLifecycle ==
  \/ Advance
  \/ \E arg \in IntervalArgs : start(arg)
  \/ stop
  \/ Tick
  \/ \E p \in PassIds : PassGetPending(p)

SpecLifecycle == Init /\ [][NextLifecycle]_vars

(* The executor under every action of the actions table and several      *)
(* actionDetails payloads, called through triggerImmediateAction.          *)
ActionDetailsArgs ==
  { EmptyDetails,
    [ recipient |-> "guest@example.com" ],
    [ recipient |-> "", subject |-> "Late checkout" ],
    [ channel |-> "#frontdesk", taskName |-> "Clean room", assignee |-> "Ana" ] }

InitExecutor ==
  /\ now = 0
  /\ storeUp = TRUE
  /\ rules \in [ RuleIds ->
                  { [ exists |-> TRUE, isActive |-> TRUE, lastTriggered |-> NULL,
                      actionId |-> a, actionDetails |-> d,
                      actionType |-> "immediate", scheduleDelay |-> 0 ] :
                    a \in DOMAIN defaultActions, d \in ActionDetailsArgs } ]
  /\ activityLogs = << >>
  /\ isRunning = FALSE
  /\ schedulerInterval = NULL
  /\ intervalMs = DefaultIntervalMs
  /\ liveTimers = 0
  /\ passes = [ p \in PassIds |-> IdlePass ]
  /\ execCount = [ i \in 1..MaxLogs |-> 0 ]
  /\ markCount = [ i \in 1..MaxLogs |-> 0 ]
  /\ caught = FALSE
  /\ crashed = FALSE
  /\ imm = IdleImm
  /\ restarts = 0
  /\ deleteCalledFor = {}
  /\ trig = IdleTrig
  /\ logged = [ alreadyRunning |-> 0, notRunning |-> 0 ]

NextExecutor ==
  \/ Advance
  \/ ImmStep

SpecExecutor == InitExecutor /\ [][NextExecutor]_vars

(* scheduleAction alone, over every delay and payload. *)
NextSchedule ==
  \/ Advance
  \/ \E r \in RuleIdArgs, d \in ScheduleDelayArgs, details \in ScheduleDetailsArgs :
       scheduleAction(r, d, details)

SpecSchedule == Init /\ [][NextSchedule]_vars

(* ------------------------------ claims --------------------------------- *)
Due(i, t) ==
  /\ activityLogs[i].status = "scheduled"
  /\ activityLogs[i].scheduleTime # NULL
  /\ activityLogs[i].scheduleTime <= t

Range(seq) == { seq[k] : k \in 1..Len(seq) }

(* Pass p takes a step. *)
Steps(p) == passes'[p] # passes[p]

(* C1: the executor is invoked at most once for every activity log entry,  *)
(* also when a pass begins while an earlier one is still awaiting.         *)
C1_ExecutedAtMostOnce ==
  \A i \in LogIds : execCount[i] <= 1

(* C2: an entry that has left status scheduled is never written again      *)
(* (status, executedAt, scheduleTime and details stay as they are).        *)
C2_TerminalIsFrozen ==
  [][ \A i \in LogIds :
        activityLogs[i].status \in Terminal => activityLogs'[i] = activityLogs[i]
    ]_vars

(* C3: with passes one after another and a database that answers, a pass  *)
(* fetches every due entry, has moved each fetched entry to a terminal     *)
(* status by exactly one write when it ends, and a later pass neither      *)
(* runs the executor for a terminal entry nor changes it.                  *)
C3_OnePassOneTransition ==
  [][ /\ \A p \in PassIds :
           /\ (passes[p].pc = "getPending" /\ Steps(p)) =>
                \A i \in LogIds :
                  Due(i, passes[p].queryNow) => i \in Range(passes'[p].pending)
           /\ (passes[p].pc # "idle" /\ passes'[p].pc = "idle") =>
                \A i \in Range(passes[p].pending) :
                  /\ activityLogs'[i].status \in Terminal
                  /\ markCount'[i] = 1
                  /\ execCount'[i] <= 1
      /\ \A i \in LogIds :
           activityLogs[i].status \in Terminal =>
             /\ activityLogs'[i] = activityLogs[i]
             /\ execCount'[i] = execCount[i]
    ]_vars

C3_Witness ==
  /\ Len(activityLogs) = 2
  /\ activityLogs[1].status \in Terminal
  /\ markCount[1] = 1
  /\ \E p \in PassIds : passes[p].pending = << 2 >>

(* C4: every scheduled entry whose scheduleTime has passed eventually      *)
(* reaches a terminal status, restarts of the process included.            *)
C4_EventuallyTerminal ==
  \A i \in 1..MaxLogs :
    (i \in LogIds /\ Due(i, now))
      ~> (i \in LogIds /\ activityLogs[i].status \in Terminal)

(* An entry executed before a restart, still scheduled after it, and taken *)
(* to its terminal status by a pass of the restarted process.              *)
C4_Witness ==
  /\ restarts = 1
  /\ \E i \in LogIds :
       /\ activityLogs[i].status \in Terminal
       /\ execCount[i] = 2
       /\ markCount[i] = 1

(* C5: a pass ends only after executeAction has been called for every     *)
(* entry it fetched, whatever error was raised for an earlier entry.       *)
C5_ErrorsDoNotAbortThePass ==
  [][ \A p \in PassIds :
        (passes[p].pc # "idle" /\ passes'[p].pc = "idle") =>
          passes[p].idx = Len(passes[p].pending)
    ]_vars

(* C6: when a database call of a pass fails, nothing escapes the pass: no  *)
(* unhandled rejection, isRunning and the timer are as before, and a       *)
(* running scheduler still has its one timer to start later passes.        *)
C6_NoErrorEscapesThePass ==
  [][ (\E p \in PassIds : passes[p].pc # "idle" /\ Steps(p) /\ ~storeUp) =>
        /\ crashed' = FALSE
        /\ UNCHANGED schedVars
        /\ (isRunning' => liveTimers' = 1)
    ]_vars

(* A pass was ended by its catch, and a later tick has started a pass. *)
C6_Witness ==
  /\ caught
  /\ ~crashed
  /\ isRunning
  /\ liveTimers = 1
  /\ \E p \in PassIds : passes[p].pc = "getPending"

(* C7: a pass that looks up the rule of an entry whose rule got a DELETE   *)
(* call after the entry was scheduled finds no rule, and so marks the      *)
(* entry failed with "Rule not found".                                     *)
C7_DeletedRuleFailsEntry ==
  [][ \A p \in PassIds :
        ( /\ passes[p].pc = "getRule"
          /\ Steps(p)
          /\ activityLogId(p) \in deleteCalledFor ) =>
            passes'[p].pc = "markRuleNotFound"
    ]_vars

(* C8: a pass that finds the rule of a due entry inactive goes to the     *)
(* early exit without calling the executor, and its write leaves the entry *)
(* failed with error "Rule is inactive" and status "canceled" in details.  *)
C8_InactiveRuleFailsEntry ==
  [][ \A p \in PassIds :
        /\ ( /\ passes[p].pc = "getRule"
             /\ Steps(p)
             /\ ~rules[activityLogs[activityLogId(p)].ruleId].isActive ) =>
               /\ passes'[p].pc = "markRuleInactive"
               /\ execCount' = execCount
        /\ (passes[p].pc = "markRuleInactive" /\ Steps(p)) =>
             /\ activityLogs'[activityLogId(p)].status = "failed"
             /\ activityLogs'[activityLogId(p)].details =
                  [ error |-> "Rule is inactive", status |-> "canceled" ]
             /\ execCount' = execCount
    ]_vars

C8_Witness ==
  \E i \in LogIds :
    /\ activityLogs[i].status = "failed"
    /\ activityLogs[i].details = [ error |-> "Rule is inactive", status |-> "canceled" ]
    /\ execCount[i] = 0

(* C9: triggerImmediateAction on an inactive rule throws the "is inactive" *)
(* error; no entry is created, the executor is not called and no rule row  *)
(* changes.                                                                *)
C9_InactiveRuleIsRejected ==
  [][ ( /\ imm.pc = "getRule"
        /\ imm' # imm
        /\ getRuleById(imm.ruleId).exists
        /\ ~getRuleById(imm.ruleId).isActive ) =>
          /\ imm'.pc = "idle"
          /\ imm'.outcome = << "Rule with ID", imm.ruleId, "is inactive" >>
          /\ ~imm'.invoked
          /\ activityLogs' = activityLogs
          /\ rules' = rules
    ]_vars

C9_Witness ==
  /\ imm.pc = "idle"
  /\ ~imm.invoked
  /\ \E r \in RuleIds :
       /\ imm.outcome = << "Rule with ID", r, "is inactive" >>
       /\ rules[r].exists
       /\ ~rules[r].isActive
       /\ rules[r].lastTriggered = NULL

C11_ImmediateEntryIsTerminal ==
  [][ /\ (imm.pc = "createLog" /\ imm'.pc = "updateRule") =>
           /\ Len(activityLogs') = Len(activityLogs) + 1
           /\ SubSeq(activityLogs', 1, Len(activityLogs)) = activityLogs
           /\ imm'.returned = Len(activityLogs')
           /\ activityLogs'[imm'.returned].ruleId = imm.ruleId
           /\ activityLogs'[imm'.returned].status =
                (IF imm.result.success THEN "success" ELSE "failed")
           /\ activityLogs'[imm'.returned].status # "scheduled"
           /\ activityLogs'[imm'.returned].executedAt # NULL
           /\ activityLogs'[imm'.returned].triggeredAt =
                activityLogs'[imm'.returned].executedAt
           /\ rules' = rules
      /\ (imm' # imm /\ imm.pc # "createLog") => activityLogs' = activityLogs
      /\ (imm.pc = "updateRule" /\ imm'.outcome = << "returned" >>) =>
           /\ imm.returned \in LogIds
           /\ activityLogs[imm.returned].status \in {"success", "failed"}
           /\ rules'[imm.ruleId].lastTriggered = now
      /\ \A r \in RuleIds :
           rules'[r].lastTriggered # rules[r].lastTriggered =>
             (imm.pc = "updateRule" /\ imm.ruleId = r)
    ]_vars

(* A call has returned the entry of an executor failure, created before    *)
(* the clock moved on and the rule was stamped.                            *)
C11_Witness ==
  /\ imm.pc = "idle"
  /\ imm.outcome = << "returned" >>
  /\ imm.returned \in LogIds
  /\ activityLogs[imm.returned].status = "failed"
  /\ activityLogs[imm.returned].triggeredAt = activityLogs[imm.returned].executedAt
  /\ activityLogs[imm.returned].executedAt < rules[imm.ruleId].lastTriggered

(* C12: scheduleAction(ruleId, d, details) for an existing rule appends    *)
(* exactly one entry: status scheduled, the given ruleId and details, and  *)
(* scheduleTime = triggeredAt + d minutes, for d = 0 as well.              *)
C12_ScheduleTimeIsTriggeredAtPlusDelay ==
  [][ \A r \in RuleIds, d \in ScheduleDelayArgs, details \in ScheduleDetailsArgs :
        scheduleAction(r, d, details) =>
          /\ Len(activityLogs') = Len(activityLogs) + 1
          /\ SubSeq(activityLogs', 1, Len(activityLogs)) = activityLogs
          /\ activityLogs'[Len(activityLogs')].status = "scheduled"
          /\ activityLogs'[Len(activityLogs')].ruleId = r
          /\ activityLogs'[Len(activityLogs')].details = details
          /\ activityLogs'[Len(activityLogs')].triggeredAt = now
          /\ activityLogs'[Len(activityLogs')].scheduleTime =
               activityLogs'[Len(activityLogs')].triggeredAt + d * 60 * 1000
    ]_vars

(* One entry scheduled with delay 0 and one, later, with the longest delay *)
(* and the default payload.                                                *)
C12_Witness ==
  /\ Len(activityLogs) = 2
  /\ activityLogs[1].scheduleTime = activityLogs[1].triggeredAt
  /\ activityLogs[2].triggeredAt > activityLogs[1].triggeredAt
  /\ activityLogs[2].scheduleTime =
       activityLogs[2].triggeredAt + (MaxMinutes + 1) * 60 * 1000
  /\ activityLogs[2].details = EmptyDetails

(* C13: a rule's lastTriggered is written only by a pass whose executor    *)
(* reported success for an entry of that rule: not when a scheduled entry  *)
(* is created, and not for an entry that ends failed.                      *)
C13_LastTriggeredOnlyOnSuccess ==
  [][ \A r \in RuleIds :
        rules'[r].lastTriggered # rules[r].lastTriggered =>
          \E p \in PassIds :
            /\ passes[p].pc = "updateRule"
            /\ Steps(p)
            /\ activityLogs[activityLogId(p)].ruleId = r
            /\ passes[p].result.success
    ]_vars

(* C14: every entry with status scheduled has a scheduleTime, whether it   *)
(* was created by scheduleAction or by the rule-trigger endpoint.          *)
C14_ScheduledHasScheduleTime ==
  \A i \in LogIds :
    activityLogs[i].status = "scheduled" => activityLogs[i].scheduleTime # NULL

(* C15: getPendingScheduledActions returns exactly the entries that are    *)
(* scheduled with a scheduleTime not later than the time of the call; an   *)
(* entry due later, or without scheduleTime, is not returned, and the      *)
(* query changes no entry.                                                 *)
C15_PendingAreExactlyTheDue ==
  [][ \A p \in PassIds :
        (passes[p].pc = "getPending" /\ Steps(p)) =>
          /\ activityLogs' = activityLogs
          /\ Range(passes'[p].pending) =
               { i \in LogIds :
                   /\ activityLogs[i].status = "scheduled"
                   /\ activityLogs[i].scheduleTime # NULL
                   /\ activityLogs[i].scheduleTime <= passes[p].queryNow }
          /\ \A i \in LogIds :
               activityLogs[i].scheduleTime > passes[p].queryNow =>
                 i \notin Range(passes'[p].pending)
    ]_vars

(* A query has returned the second entry and not the first, which is due   *)
(* later.                                                                  *)
C15_Witness ==
  /\ \E p \in PassIds : passes[p].pending = << 2 >>
  /\ activityLogs[1].status = "scheduled"
  /\ activityLogs[1].scheduleTime > now

(* A call of processScheduledActions begins in slot p. *)
Begins(p) == passes[p].pc = "idle" /\ passes'[p].pc # "idle"

(* C16: start on a running scheduler does nothing but log: no second       *)
(* timer, no pass, the interval as it was; exactly one timer is live       *)
(* after any number of such calls.                                         *)
C16_StartWhileRunningIsNoop ==
  [][ /\ liveTimers' <= 1
      /\ \A arg \in IntervalArgs :
           (isRunning /\ start(arg)) =>
             /\ UNCHANGED << schedVars, passes >>
             /\ liveTimers' = 1
      /\ logged'.alreadyRunning # logged.alreadyRunning =>
           /\ isRunning
           /\ UNCHANGED << schedVars, passes >>
    ]_vars

(* start(5000) took effect and MaxNoopCalls further start calls were made. *)
C16_Witness ==
  /\ logged.alreadyRunning = MaxNoopCalls
  /\ isRunning
  /\ liveTimers = 1
  /\ intervalMs = 5000
  /\ ~PassInFlight

(* C17: stop on a running scheduler clears the timer, so that a pass       *)
(* begins while the scheduler is stopped only by a start call; stop on a   *)
(* stopped scheduler changes nothing and throws nothing.                   *)
C17_StopCancelsTheTimer ==
  [][ /\ (isRunning /\ stop) =>
           /\ liveTimers' = 0
           /\ ~isRunning'
           /\ schedulerInterval' = NULL
      /\ \A p \in PassIds : (~isRunning /\ Begins(p)) => isRunning'
      /\ (~isRunning /\ stop) =>
           /\ UNCHANGED << schedVars, passes >>
           /\ ~crashed'
      /\ logged'.notRunning # logged.notRunning =>
           /\ ~isRunning
           /\ UNCHANGED << schedVars, passes >>
    ]_vars

(* Started with an interval, stopped, and stop called again. *)
C17_Witness ==
  /\ ~isRunning
  /\ intervalMs = 5000
  /\ liveTimers = 0
  /\ logged.notRunning = MaxNoopCalls
  /\ ~PassInFlight

(* C19: a start call that takes effect begins exactly one pass in the same *)
(* step, its query made at the time of the call; every tick begins         *)
(* exactly one further pass; nothing else begins a pass.                   *)
C19_StartRunsOnePassImmediately ==
  [][ /\ \A arg \in IntervalArgs :
           (~isRunning /\ start(arg)) =>
             /\ Cardinality({ p \in PassIds : Begins(p) }) = 1
             /\ \A p \in PassIds :
                  Begins(p) => /\ passes'[p].pc = "getPending"
                               /\ passes'[p].queryNow = now
             /\ now' = now
             /\ liveTimers' = 1
      /\ Tick => Cardinality({ p \in PassIds : Begins(p) }) = 1
      /\ (\E p \in PassIds : Begins(p)) =>
           \/ (~isRunning /\ isRunning')
           \/ (liveTimers = 1 /\ UNCHANGED schedVars)
    ]_vars

(* Every slot holds a pass awaiting its query, made at the time of the     *)
(* first start call: begun by that call and by ticks or later start calls. *)
C19_Witness ==
  /\ isRunning
  /\ now = 0
  /\ logged.notRunning = 0
  /\ \A p \in PassIds : passes[p].pc = "getPending" /\ passes[p].queryNow = 0

(* C18: stop leaves a pass in flight alone: every entry the pass has       *)
(* fetched and not yet finished, the one being executed included, still    *)
(* reaches a terminal status after stop has returned.                      *)
C18_StopDoesNotCancelThePass ==
  /\ [][ (isRunning /\ stop) =>
           (passes' = passes /\ activityLogs' = activityLogs) ]_vars
  /\ \A i \in 1..MaxLogs :
       ( /\ ~isRunning
         /\ \E p \in PassIds :
              /\ passes[p].pc # "idle"
              /\ \E k \in 1..Len(passes[p].pending) :
                   k >= passes[p].idx /\ passes[p].pending[k] = i )
         ~> (i \in LogIds /\ activityLogs[i].status \in Terminal)

(* The scheduler is stopped while a pass that fetched two entries has      *)
(* finished the first and is writing the result of the second.             *)
C18_Witness ==
  /\ ~isRunning
  /\ liveTimers = 0
  /\ \E p \in PassIds :
       /\ passes[p].pending = << 1, 2 >>
       /\ passes[p].idx = 2
       /\ passes[p].pc = "markResult"
       /\ activityLogs[1].status \in Terminal
       /\ activityLogs[2].status = "scheduled"

(* C20: a markActivityLogAsExecuted applied to an entry sets status,       *)
(* executedAt and executionDuration together and keeps every key the       *)
(* entry's details had before the call.                                    *)
C20_MarkMergesDetails ==
  [][ \A i \in LogIds :
        markCount'[i] # markCount[i] =>
          /\ activityLogs'[i].status \in {"success", "failed"}
          /\ activityLogs'[i].executedAt # NULL
          /\ activityLogs'[i].executionDuration # NULL
          /\ \A k \in DOMAIN activityLogs[i].details :
               k \in DOMAIN activityLogs'[i].details
    ]_vars

(* The fields mockExecuteAction adds for an action that succeeded. *)
ActionFields ==
  { "messageId", "recipient", "subject", "channel", "taskId", "taskName",
    "assignee", "actionResult" }

(* C21: the awaited executor always resolves, never rejects; its result    *)
(* has a boolean success and an executedAt, error and errorCode exactly    *)
(* when success is false, and action-specific fields only on success.      *)
C21_ExecutorReturnsAResult ==
  [][ (imm.pc = "executing" /\ imm' # imm) =>
        /\ imm'.pc = "createLog"
        /\ { "success", "executedAt" } \subseteq DOMAIN imm'.result
        /\ imm'.result.success \in BOOLEAN
        /\ ("error" \in DOMAIN imm'.result) <=> ~imm'.result.success
        /\ ("errorCode" \in DOMAIN imm'.result) <=> ~imm'.result.success
        /\ ~imm'.result.success => DOMAIN imm'.result \cap ActionFields = {}
        /\ imm'.result.success =>
             /\ DOMAIN imm'.result \cap ActionFields # {}
             /\ DOMAIN imm'.result \subseteq
                  ActionFields \cup { "success", "executedAt" }
    ]_vars

(* The executor has failed for 'Create task' with a full payload, and the  *)
(* call goes on to record the failure.                                     *)
C21_Witness ==
  /\ imm.pc = "createLog"
  /\ ~imm.result.success
  /\ imm.result.errorCode = "MOCK_ERROR"
  /\ getActionById(rules[imm.ruleId].actionId) = "Create task"
  /\ "taskName" \in DOMAIN rules[imm.ruleId].actionDetails

(* C22: the executionDuration stored by triggerImmediateAction is not      *)
(* smaller than the time between the call of the executor and its return.  *)
C22_DurationCoversTheExecutor ==
  [][ (imm.pc = "createLog" /\ imm'.pc = "updateRule") =>
        activityLogs'[imm'.returned].executionDuration >= imm.at - imm.calledAt
    ]_vars

(* C23: the executor is called for an entry only when the entry's          *)
(* scheduleTime has come; the entries a pass gets from its query are those *)
(* with scheduleTime not later than the query time, and the pass writes to *)
(* no other entry: an entry due later keeps every field.                   *)
C23_NotYetDueIsUntouched ==
  [][ /\ \A i \in 1..Len(activityLogs) :
           execCount'[i] > execCount[i] =>
             /\ activityLogs[i].scheduleTime # NULL
             /\ activityLogs[i].scheduleTime <= now
      /\ \A p \in PassIds :
           /\ (passes[p].pc = "getPending" /\ Steps(p)) =>
                \A i \in 1..Len(activityLogs) :
                  (activityLogs[i].scheduleTime = NULL
                     \/ activityLogs[i].scheduleTime > passes[p].queryNow)
                    => i \notin Range(passes'[p].pending)
           /\ Steps(p) =>
                \A i \in 1..Len(activityLogs) :
                  i \notin Range(passes[p].pending) =>
                    activityLogs'[i] = activityLogs[i]
    ]_vars

(* A pass has executed the entry that was due and is past it, while the    *)
(* other entry, due later, is still as scheduleAction inserted it.         *)
C23_Witness ==
  \E p \in PassIds : \E i, j \in 1..Len(activityLogs) :
    /\ passes[p].pc = "markResult"
    /\ passes[p].pending = << i >>
    /\ execCount[i] = 1
    /\ activityLogs[j].status = "scheduled"
    /\ activityLogs[j].scheduleTime > now
    /\ activityLogs[j].executedAt = NULL
    /\ execCount[j] = 0 /\ markCount[j] = 0

(* Pass p is inside its for loop. *)
InLoop(p) == passes[p].pc \notin { "idle", "getPending" }

(* C24: a pass works on its due entries one at a time, in the order of the *)
(* query's answer: each step of the loop touches the entry at the loop     *)
(* position only, and the position moves by one, to the next entry of the  *)
(* answer, only at a step that ends executeAction for the current entry,   *)
(* which is then no longer scheduled.                                      *)
C24_OneEntryAtATimeInQueryOrder ==
  [][ \A p \in PassIds :
        /\ (passes[p].pc = "getPending" /\ passes'[p].pc = "getLogs") =>
             /\ passes'[p].pending = getPendingScheduledActions(passes[p].queryNow)
             /\ passes'[p].idx = 1
        /\ (InLoop(p) /\ Steps(p)) =>
             LET k == passes[p].idx
                 id == passes[p].pending[k] IN
             /\ \A i \in 1..Len(activityLogs) :
                  (activityLogs'[i] # activityLogs[i] \/ execCount'[i] # execCount[i])
                    => i = id
             /\ passes'[p].pc # "idle" =>
                  /\ passes'[p].pending = passes[p].pending
                  /\ passes'[p].idx \in { k, k + 1 }
             /\ (passes'[p].pc # "idle" /\ passes'[p].idx # k) =>
                  /\ passes'[p].pc = "getLogs"
                  /\ activityLogs'[id].status # "scheduled"
    ]_vars

(* A pass that got two due entries has finished the first and begins the   *)
(* second, which nothing has touched yet.                                  *)
C24_Witness ==
  \E p \in PassIds :
    /\ passes[p].pc = "getLogs"
    /\ passes[p].pending = << 1, 2 >>
    /\ passes[p].idx = 2
    /\ activityLogs[1].status \in { "success", "failed" }
    /\ activityLogs[2].status = "scheduled"
    /\ execCount[2] = 0 /\ markCount[2] = 0

(* C25: the write that follows the executor sets the entry, still          *)
(* scheduled, to success when the executor's result says success and to    *)
(* failed when not; the result, with its error and errorCode on failure,   *)
(* is stored in the details under `execution`, and every other key of the  *)
(* details the entry was scheduled with keeps its value.                   *)
C25_StatusFollowsTheExecutor ==
  [][ \A p \in PassIds :
        (passes[p].pc = "markResult" /\ Steps(p)) =>
          LET id == activityLogId(p)
              executionResult == passes[p].result
              before == activityLogs[id]
              after == activityLogs'[id] IN
          /\ before.status = "scheduled"
          /\ after.status = (IF executionResult.success THEN "success" ELSE "failed")
          /\ "execution" \in DOMAIN after.details
          /\ after.details.execution = executionResult
          /\ ~executionResult.success =>
               { "error", "errorCode" } \subseteq DOMAIN after.details.execution
          /\ \A k \in DOMAIN before.details \ { "execution" } :
               k \in DOMAIN after.details /\ after.details[k] = before.details[k]
    ]_vars

(* An entry scheduled with a triggerTime ended failed on the executor's    *)
(* word, with the mock error code next to the triggerTime.                 *)
C25_Witness ==
  \E i \in 1..Len(activityLogs) :
    /\ activityLogs[i].status = "failed"
    /\ "execution" \in DOMAIN activityLogs[i].details
    /\ ~activityLogs[i].details.execution.success
    /\ activityLogs[i].details.execution.errorCode = "MOCK_ERROR"
    /\ "triggerTime" \in DOMAIN activityLogs[i].details
    /\ execCount[i] = 1

(* C26: when a step of executeAction has thrown, the handler leaves the    *)
(* entry failed with the error's message in its details, never scheduled.  *)
C26_ThrowEndsFailed ==
  [][ \A p \in PassIds :
        (passes[p].pc = "catch" /\ Steps(p)) =>
          /\ activityLogs'[activityLogId(p)].status = "failed"
          /\ activityLogs'[activityLogId(p)].details = [ error |-> passes[p].error ]
    ]_vars

(* C27: a start call without an interval (the argument is undefined,       *)
(* modelled as 0) that takes effect arms the timer with the default        *)
(* interval; one with an interval n > 0 arms it with n. The timer is armed *)
(* with the value of the field intervalMs after the call's assignment.     *)
C27_StartWithoutIntervalArmsDefault ==
  [][ \A arg \in IntervalArgs :
        (~isRunning /\ start(arg)) =>
          intervalMs' = (IF arg = 0 THEN DefaultIntervalMs ELSE arg)
    ]_vars

(* C28: every entry whose status is success or failed has an executedAt,   *)
(* whichever of the loop, the early exits and the rule-trigger endpoint    *)
(* wrote it.                                                               *)
C28_TerminalHasExecutedAt ==
  \A i \in 1..Len(activityLogs) :
    activityLogs[i].status \in { "success", "failed" } =>
      activityLogs[i].executedAt # NULL

(* C29: in every state, isRunning is true exactly when schedulerInterval   *)
(* holds a timer, and the number of live recurring timers is 1 when        *)
(* isRunning and 0 when not.                                               *)
C29_RunningIffOneTimer ==
  /\ isRunning <=> (schedulerInterval # NULL)
  /\ liveTimers = (IF isRunning THEN 1 ELSE 0)

(* Running with one timer after calls of every kind: stop calls on a       *)
(* stopped scheduler, start calls on a running one, and a start with an    *)
(* interval that took effect.                                              *)
C29_Witness ==
  /\ isRunning
  /\ schedulerInterval # NULL
  /\ liveTimers = 1
  /\ intervalMs = 5000
  /\ logged.notRunning = MaxNoopCalls
  /\ logged.alreadyRunning = 1

EarlyExitMarks == { "markRuleNotFound", "markRuleInactive", "markActionNotFound" }

====
